---- MODULE Spec2Model ----
(***************************************************************************)
(* Client-side randomization pipeline of Cobalt's prototype.               *)
(*                                                                         *)
(*   Spec        HelpQueryRandomizer.randomize: the Forculus path, which   *)
(*               writes one csv row per Entry to the randomizer output.    *)
(*   SpecRappor  the RAPPOR encoder behind ModuleNameRandomizer.randomize  *)
(*               (Bloom filter, permanent and instantaneous response).     *)
(*   SpecConc    concurrent RAPPOR encodings over the shared cache of      *)
(*               permanent responses.                                      *)
(*   SpecConfig  construction of a RandomizerConfig.                       *)
(***************************************************************************)
EXTENDS Integers, Sequences, FiniteSets, TLC

VARIABLES
    entries,    \* the batch handed to randomize(): a sequence of Entry
    threshold,  \* the Forculus threshold t of the run's config
    pc,         \* position of randomize(): "start", "loop", "done", "raised"
    i,          \* 1-based position of the for loop over entries
    rows,       \* the lines written so far to the randomizer output file
    err,        \* the exception that left randomize(), or "none"
    params,     \* the numbers a RandomizerConfig is being constructed from
    built,      \* "pending", or the outcome of the construction
    config,     \* the RandomizerConfig of the RAPPOR run
    cache,      \* permanent responses: (secret, field, cohort) -> B'
    last,       \* the latest RAPPOR encoding: a sequence of at most one
    locked,     \* the cache keys whose entry an encoding holds locked
    tpc,        \* position of each concurrent encoding
    tentry,     \* the entry each concurrent encoding works on
    tbp,        \* the B' each concurrent encoding holds
    spc,        \* position of the stability check's main()
    out1,       \* output captured from the first config_parser run
    out2,       \* output captured from the second config_parser run
    scalls,     \* the config_parser invocations made so far
    sprinted,   \* what main() has printed
    sresult,    \* how main() ended, or "none"
    mentries,   \* the batch handed to ModuleNameRandomizer.randomize
    forPrivateRelease,  \* its for_private_release argument
    mpc,        \* position of ModuleNameRandomizer.randomize
    mfiles,     \* its locals config_file and output_file, once chosen
    mcalls,     \* the requests made to randomizer.randomizeUsingRappor
    mwritten,   \* the output files the requests have written
    fs,         \* the deploy directories: directory -> its contents
    call,       \* the _set_contents_of_dir call in progress
    bpc,        \* position of build_all_docker_images
    bstep,      \* the step of build_all_docker_images that comes next
    shufflerConfig,  \* its shuffler_config_file argument
    dockerLog   \* the docker build invocations made so far

pipelineVars == <<entries, threshold, pc, i, rows, err>>
configVars == <<params, built>>
rapporVars == <<config, cache, last>>
threadVars == <<locked, tpc, tentry, tbp>>
stableVars == <<spc, out1, out2, scalls, sprinted, sresult>>
moduleVars == <<mentries, forPrivateRelease, mpc, mfiles, mcalls, mwritten>>
dirVars == <<fs, call>>
buildVars == <<bpc, bstep, shufflerConfig, dockerLog>>
toolVars == <<stableVars, moduleVars, dirVars, buildVars>>

vars == <<pipelineVars, configVars, rapporVars, threadVars, toolVars>>

-----------------------------------------------------------------------------
(* Bounds of the model.                                                    *)

MaxEntries == 3     \* longest batch
MaxThreshold == 2   \* largest Forculus threshold
MaxK == 2           \* widest Bloom filter, in bits
MaxCohorts == 2     \* largest number of cohorts
MaxThreads == 2     \* concurrent encodings
MaxOutLen == 2      \* longest config_parser output, in bytes
MaxFiles == 3       \* longest files_to_copy list of a free-standing call

-----------------------------------------------------------------------------
(* Entries.  Text is a sequence of one-character strings.                  *)

Users == { <<"u", "1">>, <<"u", "2">> }
Names == { <<"s">>, <<"c">> }
Queries == { <<>>, <<"a">>, <<"\"", ",">> }

EntrySet == [user_id : Users, name : Names, help_query : Queries]

RECURSIVE SeqsUpTo(_, _)
SeqsUpTo(S, n) ==
    IF n = 0 THEN { <<>> }
    ELSE LET shorter == SeqsUpTo(S, n - 1)
         IN  shorter \cup { Append(s, x) : s \in { t \in shorter : Len(t) = n - 1 }, x \in S }

-----------------------------------------------------------------------------
(* csv.writer with the default dialect: delimiter ",", quotechar '"',      *)
(* doublequote, QUOTE_MINIMAL, lineterminator "\r\n".                      *)

CsvSpecial == { ",", "\"", "\r", "\n" }

LineTerminator == <<"\r", "\n">>

RECURSIVE CsvDouble(_)
CsvDouble(s) ==
    IF s = <<>> THEN <<>>
    ELSE (IF Head(s) = "\"" THEN <<"\"", "\"">> ELSE <<Head(s)>>) \o CsvDouble(Tail(s))

CsvNeedsQuote(s, alone) ==
    \/ \E j \in 1..Len(s) : s[j] \in CsvSpecial
    \/ alone /\ s = <<>>

CsvField(s, alone) ==
    IF CsvNeedsQuote(s, alone) THEN <<"\"">> \o CsvDouble(s) \o <<"\"">> ELSE s

RECURSIVE CsvJoin(_, _)
CsvJoin(fields, alone) ==
    IF fields = <<>> THEN <<>>
    ELSE IF Len(fields) = 1 THEN CsvField(fields[1], alone)
    ELSE CsvField(fields[1], alone) \o <<",">> \o CsvJoin(Tail(fields), alone)

\* writer.writerow(fields): the text of one output line
WriteRowText(fields) == CsvJoin(fields, Len(fields) = 1) \o LineTerminator

\* writer.writerow([entry.help_query])
HelpQueryRow(entry) == WriteRowText(<<entry.help_query>>)

(* What a reader of the output file gets back from one line holding a      *)
(* single field (csv.reader with the same dialect).                        *)
RECURSIVE CsvUndouble(_)
CsvUndouble(s) ==
    IF s = <<>> THEN <<>>
    ELSE IF Len(s) >= 2 /\ s[1] = "\"" /\ s[2] = "\""
         THEN <<"\"">> \o CsvUndouble(SubSeq(s, 3, Len(s)))
         ELSE <<Head(s)>> \o CsvUndouble(Tail(s))

ReadRowField(line) ==
    LET body == IF Len(line) >= 2 /\ SubSeq(line, Len(line) - 1, Len(line)) = LineTerminator
                THEN SubSeq(line, 1, Len(line) - 2) ELSE line
    IN  IF Len(body) >= 2 /\ body[1] = "\"" /\ body[Len(body)] = "\""
        THEN CsvUndouble(SubSeq(body, 2, Len(body) - 1))
        ELSE body

IsSubstring(s, text) ==
    \E a \in 1..(Len(text) - Len(s) + 1) : SubSeq(text, a, a + Len(s) - 1) = s

-----------------------------------------------------------------------------
(* HelpQueryRandomizer.randomize(entries)                                  *)

\* the variables of the other specifications, at rest
NoParams == [f |-> 0, p |-> 0, q |-> 0, k |-> 0, h |-> 0, m |-> 0, t |-> 0]
Pending == [status |-> "pending", config |-> NoParams]
ConfigIdle == params = NoParams /\ built = Pending
RapporIdle == config = NoParams /\ cache = <<>> /\ last = <<>>
Threads == 1..MaxThreads
NoEntry == [user_id |-> <<>>, name |-> <<>>, help_query |-> <<>>]
ThreadsIdle ==
    /\ locked = {}
    /\ tpc = [t \in Threads |-> "idle"]
    /\ tentry = [t \in Threads |-> NoEntry]
    /\ tbp = [t \in Threads |-> {}]
StableIdle ==
    /\ spc = "idle"
    /\ out1 = <<>>
    /\ out2 = <<>>
    /\ scalls = <<>>
    /\ sprinted = <<>>
    /\ sresult = "none"
NoFiles == [config_file |-> "", output_file |-> ""]
ModuleIdle ==
    /\ mentries = <<>>
    /\ forPrivateRelease = FALSE
    /\ mpc = "idle"
    /\ mfiles = NoFiles
    /\ mcalls = <<>>
    /\ mwritten = {}
\* a path is the sequence of its components
COBALT_COMMON_DOCKER_BUILD_DIR == <<"out", "kubernetes", "cobalt_common">>
ANALYZER_SERVICE_DOCKER_BUILD_DIR == <<"out", "kubernetes", "analyzer_service">>
REPORT_MASTER_DOCKER_BUILD_DIR == <<"out", "kubernetes", "report_master">>
SHUFFLER_DOCKER_BUILD_DIR == <<"out", "kubernetes", "shuffler">>
DeployDirs ==
    { COBALT_COMMON_DOCKER_BUILD_DIR, ANALYZER_SERVICE_DOCKER_BUILD_DIR,
      REPORT_MASTER_DOCKER_BUILD_DIR, SHUFFLER_DOCKER_BUILD_DIR }
\* a directory that does not exist, and no call in progress
Absent == [exists |-> FALSE, files |-> <<>>]
NoCall == [pc |-> "idle", dir |-> <<>>, files |-> <<>>, idx |-> 0, hadOther |-> FALSE]
DirsIdle ==
    /\ fs = [d \in DeployDirs |-> Absent]
    /\ call = NoCall
BuildIdle ==
    /\ bpc = "idle"
    /\ bstep = 0
    /\ shufflerConfig = <<>>
    /\ dockerLog = <<>>
ToolsIdle == StableIdle /\ ModuleIdle /\ DirsIdle /\ BuildIdle
PipelineIdle ==
    /\ entries = <<>>
    /\ threshold = 1
    /\ pc = "idle"
    /\ i = 0
    /\ rows = <<>>
    /\ err = "none"

Init ==
    /\ entries \in SeqsUpTo(EntrySet, MaxEntries)
    /\ threshold \in 1..MaxThreshold
    /\ pc = "start"
    /\ i = 0
    /\ rows = <<>>
    /\ err = "none"
    /\ ConfigIdle
    /\ RapporIdle
    /\ ThreadsIdle
    /\ ToolsIdle

\* with file_util.openForRandomizerWriting(...) as f: the file is opened
OpenOk ==
    /\ pc = "start"
    /\ pc' = "loop"
    /\ i' = 1
    /\ rows' = <<>>
    /\ UNCHANGED <<entries, threshold, err>>
    /\ UNCHANGED <<configVars, rapporVars, threadVars, toolVars>>

\* ... or opening it raises, and randomize() is left with the exception
OpenFails ==
    /\ pc = "start"
    /\ pc' = "raised"
    /\ err' = "IOError"
    /\ UNCHANGED <<entries, threshold, i, rows>>
    /\ UNCHANGED <<configVars, rapporVars, threadVars, toolVars>>

\* WriteRowOk, were the loop to pass over entries with an empty help query
WriteRowOkSkipsEmpty ==
    /\ pc = "loop"
    /\ i <= Len(entries)
    /\ rows' = IF entries[i].help_query = <<>> THEN rows
               ELSE Append(rows, HelpQueryRow(entries[i]))
    /\ i' = i + 1
    /\ UNCHANGED <<entries, threshold, pc, err>>
    /\ UNCHANGED <<configVars, rapporVars, threadVars, toolVars>>

\* WriteRowOk, were each row put in front of the rows already written
WriteRowOkPrepends ==
    /\ pc = "loop"
    /\ i <= Len(entries)
    /\ rows' = <<HelpQueryRow(entries[i])>> \o rows
    /\ i' = i + 1
    /\ UNCHANGED <<entries, threshold, pc, err>>
    /\ UNCHANGED <<configVars, rapporVars, threadVars, toolVars>>

\* one turn of the loop: writer.writerow([entry.help_query]) returns
WriteRowOk ==
    /\ pc = "loop"
    /\ i <= Len(entries)
    /\ rows' = Append(rows, HelpQueryRow(entries[i]))
    /\ i' = i + 1
    /\ UNCHANGED <<entries, threshold, pc, err>>
    /\ UNCHANGED <<configVars, rapporVars, threadVars, toolVars>>

\* WriteRowFails, were the loop to catch the exception and go on
WriteRowFailsSwallowed ==
    /\ pc = "loop"
    /\ i <= Len(entries)
    /\ err' = "IOError"
    /\ i' = i + 1
    /\ UNCHANGED <<entries, threshold, pc, rows>>
    /\ UNCHANGED <<configVars, rapporVars, threadVars, toolVars>>

\* ... or the write raises: nothing catches it, the with block closes the
\* file and the exception leaves randomize()
WriteRowFails ==
    /\ pc = "loop"
    /\ i <= Len(entries)
    /\ pc' = "raised"
    /\ err' = "IOError"
    /\ UNCHANGED <<entries, threshold, i, rows>>
    /\ UNCHANGED <<configVars, rapporVars, threadVars, toolVars>>

\* the loop is exhausted: the with block closes the file, randomize() returns
Close ==
    /\ pc = "loop"
    /\ i > Len(entries)
    /\ pc' = "done"
    /\ UNCHANGED <<entries, threshold, i, rows, err>>
    /\ UNCHANGED <<configVars, rapporVars, threadVars, toolVars>>

\* ... or closing the file raises (the buffered rows cannot be flushed)
CloseFails ==
    /\ pc = "loop"
    /\ i > Len(entries)
    /\ pc' = "raised"
    /\ err' = "IOError"
    /\ UNCHANGED <<entries, threshold, i, rows>>
    /\ UNCHANGED <<configVars, rapporVars, threadVars, toolVars>>

Next ==
    \/ OpenOk
    \/ OpenFails
    \/ WriteRowOk
    \/ WriteRowFails
    \/ Close
    \/ CloseFails

Spec == Init /\ [][Next]_vars

-----------------------------------------------------------------------------
(* Properties of HelpQueryRandomizer.randomize, checked under Spec.        *)

Terminated == pc \in {"done", "raised"}

\* the number of entries of the batch whose help query is q
Occurrences(q) == Cardinality({ k \in 1..Len(entries) : entries[k].help_query = q })

\* q can be read back from the output file by whoever holds it
Recoverable(q) == \E k \in 1..Len(rows) : ReadRowField(rows[k]) = q

C2_PrefixOrder ==
    /\ Len(rows) <= Len(entries)
    /\ \A k \in 1..Len(rows) : ReadRowField(rows[k]) = entries[k].help_query

C2_AppendOnly ==
    \/ rows' = rows
    \/ /\ Len(rows') = Len(rows) + 1
       /\ SubSeq(rows', 1, Len(rows)) = rows
       /\ ReadRowField(rows'[Len(rows')]) = entries[Len(rows')].help_query

C2_InputOrder == []C2_PrefixOrder /\ [][C2_AppendOnly]_vars

C2_Witness ==
    /\ Len(rows) = 2
    /\ Len(entries) = 3
    /\ entries[1].help_query # entries[2].help_query
    /\ pc = "loop"

(* C3: no line of the output file holds the user identifier of its entry,  *)
(* and none gives back the plaintext help query of its entry (the empty    *)
(* query aside, which every text holds).                                   *)
C3_NoPlaintextInReports ==
    \A k \in 1..Len(rows) :
        /\ ~IsSubstring(entries[k].user_id, rows[k])
        /\ entries[k].help_query # <<>> => ReadRowField(rows[k]) # entries[k].help_query

(* C6: when the run has returned, a help query can be read back from the   *)
(* output exactly when at least threshold entries of the batch carry it.   *)
C6_ForculusThreshold ==
    pc = "done" =>
        \A q \in Queries : Recoverable(q) <=> Occurrences(q) >= threshold

(* C8: a failed write leaves randomize() as an exception and halts the     *)
(* run: once the exception is raised no further write is attempted, no     *)
(* later entry is processed, the error is not cleared and the lines        *)
(* written before the failure stay as they are.                            *)
C8_Raised == (err # "none") <=> (pc = "raised")

C8_Halted == err # "none" => /\ err' = err
                             /\ pc' = "raised"
                             /\ i' = i
                             /\ rows' = rows

C8_SinkFailureHalts == []C8_Raised /\ [][C8_Halted]_vars

C8_Witness ==
    /\ pc = "raised"
    /\ i = 2
    /\ Len(rows) = 1
    /\ Len(entries) = 3

-----------------------------------------------------------------------------
(* RandomizerConfig.  Probabilities are counted in hundredths.             *)

ProbValues == { -50, 0, 50, 100, 150 }

ParamSet ==
    [f : ProbValues, p : ProbValues, q : ProbValues,
     k : -1..MaxK, h : -1..MaxK, m : -1..MaxCohorts, t : -1..MaxThreshold]

\* IsProbability, were the upper end of the range left out
IsProbabilityOpen(x) == 0 <= x /\ x < 100

IsProbability(x) == 0 <= x /\ x <= 100

Invalid == [status |-> "InvalidConfig", config |-> NoParams]

\* the constructor: the checks in the order the contract lists them
NewRandomizerConfig(a) ==
    IF ~IsProbability(a.f) \/ ~IsProbability(a.p) \/ ~IsProbability(a.q) THEN Invalid
    ELSE IF a.k <= 0 \/ a.h <= 0 \/ a.m <= 0 \/ a.t <= 0 THEN Invalid
    ELSE IF a.h > a.k THEN Invalid
    ELSE [status |-> "ok", config |-> a]

InitConfig ==
    /\ params \in ParamSet
    /\ built = Pending
    /\ PipelineIdle
    /\ RapporIdle
    /\ ThreadsIdle
    /\ ToolsIdle

Construct ==
    /\ built.status = "pending"
    /\ built' = NewRandomizerConfig(params)
    /\ UNCHANGED <<params, pipelineVars, rapporVars, threadVars, toolVars>>

NextConfig == Construct

SpecConfig == InitConfig /\ [][NextConfig]_vars

(* C7: the construction fails with InvalidConfig exactly when one of f, p, *)
(* q lies outside [0,1], or one of k, h, m, t is not positive, or h > k;   *)
(* otherwise it yields the config with the numbers given, and it leaves    *)
(* its arguments and every other part of the state as they were.           *)
C7_Rejected(a) ==
    \/ \E x \in {a.f, a.p, a.q} : x < 0 \/ x > 100
    \/ \E n \in {a.k, a.h, a.m, a.t} : n < 1
    \/ a.k < a.h

C7_ConfigValidation ==
    /\ built.status \in {"pending", "ok", "InvalidConfig"}
    /\ built.status # "pending" =>
          /\ (built.status = "InvalidConfig") <=> C7_Rejected(params)
          /\ built.status = "ok" => built.config = params
    /\ PipelineIdle
    /\ RapporIdle
    /\ ThreadsIdle
    /\ ToolsIdle

C7_Witness ==
    /\ built.status = "ok"
    /\ params.f = 0
    /\ params.q = 100
    /\ params.t = 1
    /\ params.h = params.k

-----------------------------------------------------------------------------
(* The RAPPOR encoder.  A bit vector of width k is the set of its lit      *)
(* positions, a subset of 0..k-1.                                          *)

ModuleNameIndex == 1

\* entry[index]
FieldAt(entry, index) ==
    CASE index = 0 -> entry.user_id
      [] index = 1 -> entry.name
      [] index = 2 -> entry.help_query

CharCode(c) ==
    CASE c = "u" -> 117 [] c = "s" -> 115 [] c = "c" -> 99 [] c = "a" -> 97
      [] c = "1" -> 49 [] c = "2" -> 50 [] c = "," -> 44 [] c = "\"" -> 34

RECURSIVE HashFrom(_, _)
HashFrom(acc, text) ==
    IF text = <<>> THEN acc
    ELSE HashFrom((acc * 33 + CharCode(Head(text)) * CharCode(Head(text))) % 251, Tail(text))

\* the hash function of index j under the seed of the cohort
Hash(value, cohort, j) == HashFrom(cohort * 16 + j, value)

SecretOf(entry) == entry.user_id

CohortOf(secret, cfg) == HashFrom(0, secret) % cfg.m

Positions(cfg) == 0..(cfg.k - 1)

mapToBloom(value, cohort, cfg) == { Hash(value, cohort, j) % cfg.k : j \in 1..cfg.h }

\* the outcomes of one bit of the permanent response
PermanentBit(bit, f) ==
    (IF f < 100 THEN {bit} ELSE {}) \cup (IF f > 0 THEN BOOLEAN ELSE {})

PermanentOutcomes(B, cfg) ==
    { S \in SUBSET Positions(cfg) : \A b \in Positions(cfg) : (b \in S) \in PermanentBit(b \in B, cfg.f) }

\* the outcomes of one bit of the instantaneous response
InstantaneousBit(bit, p, q) ==
    LET one == IF bit THEN q ELSE p
    IN  (IF one > 0 THEN {TRUE} ELSE {}) \cup (IF one < 100 THEN {FALSE} ELSE {})

InstantaneousOutcomes(Bp, cfg) ==
    { S \in SUBSET Positions(cfg) : \A b \in Positions(cfg) : (b \in S) \in InstantaneousBit(b \in Bp, cfg.p, cfg.q) }

CacheKey(entry, cfg) == <<SecretOf(entry), ModuleNameIndex, CohortOf(SecretOf(entry), cfg)>>

\* PermanentCandidates, were B' sampled afresh for every entry
PermanentCandidatesResampled(store, key, B, cfg) == PermanentOutcomes(B, cfg)

\* the permanent response of key: the cached one if there is one, else a
\* fresh sample
PermanentCandidates(store, key, B, cfg) ==
    IF key \in DOMAIN store THEN {store[key]} ELSE PermanentOutcomes(B, cfg)

\* the entry of key is inserted unless the cache holds one
CacheInsert(store, key, sampled) ==
    IF key \in DOMAIN store THEN store ELSE (key :> sampled) @@ store

RapporConfigs ==
    { a \in [f : {0, 50, 100}, p : {0, 50}, q : {50, 100},
             k : 1..MaxK, h : 1..MaxK, m : 1..MaxCohorts, t : {1}] :
        NewRandomizerConfig(a).status = "ok" }

InitRappor ==
    /\ config \in RapporConfigs
    /\ cache = <<>>
    /\ last = <<>>
    /\ PipelineIdle
    /\ ConfigIdle
    /\ ThreadsIdle
    /\ ToolsIdle

\* the entries of a module-name run
ModuleEntries == { e \in EntrySet : e.help_query = <<>> }

\* encode(entry, fieldIndex, cohort, config, secretCache)
Encode(entry) ==
    LET key == CacheKey(entry, config)
        value == FieldAt(entry, ModuleNameIndex)
        B == mapToBloom(value, key[3], config)
    IN  \E Bp \in PermanentCandidates(cache, key, B, config) :
            /\ cache' = CacheInsert(cache, key, Bp)
            /\ \E bits \in InstantaneousOutcomes(Bp, config) :
                   last' = << [key |-> key, value |-> value, bprime |-> Bp,
                               fresh |-> key \notin DOMAIN cache,
                               report |-> [cohort |-> key[3], bits |-> bits]] >>
            /\ UNCHANGED <<config, pipelineVars, configVars, threadVars, toolVars>>

NextRappor == \E entry \in ModuleEntries : Encode(entry)

SpecRappor == InitRappor /\ [][NextRappor]_vars

(* C4: the permanent response of a (secret, field, cohort) key is sampled  *)
(* at most once in a run: every encoding uses the B' the cache holds for   *)
(* its key, and an entry of the cache, once inserted, keeps its value.     *)
C4_UsesCached ==
    \A n \in 1..Len(last) :
        /\ last[n].key \in DOMAIN cache
        /\ last[n].bprime = cache[last[n].key]

C4_KeepsEntries ==
    /\ \A key \in DOMAIN cache : key \in DOMAIN cache' /\ cache'[key] = cache[key]
    /\ \A n \in 1..Len(last') :
           last'[n].key \in DOMAIN cache =>
               last' = last \/ (~last'[n].fresh /\ last'[n].bprime = cache[last'[n].key])

C4_PermanentOnce == []C4_UsesCached /\ [][C4_KeepsEntries]_vars

C4_Witness ==
    /\ Len(last) = 1
    /\ ~last[1].fresh
    /\ last[1].bprime # mapToBloom(last[1].value, last[1].key[3], config)
    /\ Cardinality(DOMAIN cache) = 2

(* C9: with f = 0, p = 0 and q = 1 every encoding returns the true Bloom   *)
(* filter of its value: B' equals B and the reported bits equal B'.        *)
C9_DegenerateIsBloom ==
    (config.f = 0 /\ config.p = 0 /\ config.q = 100) =>
        \A n \in 1..Len(last) :
            LET B == mapToBloom(last[n].value, last[n].key[3], config)
            IN  last[n].bprime = B /\ last[n].report.bits = B

-----------------------------------------------------------------------------
(* Concurrent encodings.  The read-check-compute-insert on the cache entry *)
(* of a key runs under the lock of that key; the instantaneous response is *)
(* drawn after the lock is released.                                       *)

ConcConfigs ==
    { a \in RapporConfigs : a.f = 50 /\ a.p = 50 /\ a.q = 50 /\ a.k = 2 /\ a.h = 1 /\ a.m = MaxCohorts }

KeyOf(t) == CacheKey(tentry[t], config)

\* the positions at which an encoding holds the lock of its key
InCritical(t) == tpc[t] \in {"lookup", "compute", "insert", "release"}

\* MayLock, were the cache entry not locked at all
MayLockAlways(held, key) == TRUE

\* the lock of key is free
MayLock(held, key) == key \notin held

InitConc ==
    /\ config \in ConcConfigs
    /\ cache = <<>>
    /\ last = <<>>
    /\ ThreadsIdle
    /\ ToolsIdle
    /\ PipelineIdle
    /\ ConfigIdle

\* an encoding of entry is submitted
Begin(t, entry) ==
    /\ tpc[t] = "idle"
    /\ tentry' = [tentry EXCEPT ![t] = entry]
    /\ tpc' = [tpc EXCEPT ![t] = "acquire"]
    /\ UNCHANGED <<locked, tbp, rapporVars, pipelineVars, configVars, toolVars>>

Acquire(t) ==
    /\ tpc[t] = "acquire"
    /\ MayLock(locked, KeyOf(t))
    /\ locked' = locked \cup {KeyOf(t)}
    /\ tpc' = [tpc EXCEPT ![t] = "lookup"]
    /\ UNCHANGED <<tentry, tbp, rapporVars, pipelineVars, configVars, toolVars>>

\* read and check: the cached B' is taken if there is one
Lookup(t) ==
    /\ tpc[t] = "lookup"
    /\ IF KeyOf(t) \in DOMAIN cache
       THEN /\ tbp' = [tbp EXCEPT ![t] = cache[KeyOf(t)]]
            /\ tpc' = [tpc EXCEPT ![t] = "release"]
       ELSE /\ tpc' = [tpc EXCEPT ![t] = "compute"]
            /\ UNCHANGED tbp
    /\ UNCHANGED <<locked, tentry, rapporVars, pipelineVars, configVars, toolVars>>

\* compute: B' is sampled from the Bloom filter of the value
Compute(t) ==
    /\ tpc[t] = "compute"
    /\ \E Bp \in PermanentOutcomes(
                    mapToBloom(FieldAt(tentry[t], ModuleNameIndex), KeyOf(t)[3], config),
                    config) :
           tbp' = [tbp EXCEPT ![t] = Bp]
    /\ tpc' = [tpc EXCEPT ![t] = "insert"]
    /\ UNCHANGED <<locked, tentry, rapporVars, pipelineVars, configVars, toolVars>>

Insert(t) ==
    /\ tpc[t] = "insert"
    /\ cache' = CacheInsert(cache, KeyOf(t), tbp[t])
    /\ tpc' = [tpc EXCEPT ![t] = "release"]
    /\ UNCHANGED <<locked, tentry, tbp, config, last, pipelineVars, configVars, toolVars>>

Release(t) ==
    /\ tpc[t] = "release"
    /\ locked' = locked \ {KeyOf(t)}
    /\ tpc' = [tpc EXCEPT ![t] = "irr"]
    /\ UNCHANGED <<tentry, tbp, rapporVars, pipelineVars, configVars, toolVars>>

\* the instantaneous response is drawn and the report handed over
Emit(t) ==
    /\ tpc[t] = "irr"
    /\ \E bits \in InstantaneousOutcomes(tbp[t], config) :
           last' = << [key |-> KeyOf(t), value |-> FieldAt(tentry[t], ModuleNameIndex),
                       bprime |-> tbp[t], fresh |-> FALSE,
                       report |-> [cohort |-> KeyOf(t)[3], bits |-> bits]] >>
    /\ tpc' = [tpc EXCEPT ![t] = "done"]
    /\ UNCHANGED <<locked, tentry, tbp, config, cache, pipelineVars, configVars, toolVars>>

NextConc ==
    \E t \in Threads :
        \/ \E entry \in ModuleEntries : Begin(t, entry)
        \/ Acquire(t)
        \/ Lookup(t)
        \/ Compute(t)
        \/ Insert(t)
        \/ Release(t)
        \/ Emit(t)

SpecConc == InitConc /\ [][NextConc]_vars

(* C5: under every interleaving, two encodings of the same key never hold  *)
(* two different B', and an encoding past the critical section holds the   *)
(* B' of the cache; an encoding waiting for the lock of its key can take   *)
(* it unless an encoding of the same key holds it; and a step changes the  *)
(* cache only at the key of the encoding that inserts, leaving every       *)
(* existing entry as it was.                                               *)
HoldsBp(t) == tpc[t] \in {"insert", "release", "irr", "done"}

C5_OneSample ==
    /\ \A t \in Threads, u \in Threads :
           HoldsBp(t) /\ HoldsBp(u) /\ KeyOf(t) = KeyOf(u) => tbp[t] = tbp[u]
    /\ \A t \in Threads :
           tpc[t] \in {"release", "irr", "done"} =>
               KeyOf(t) \in DOMAIN cache /\ cache[KeyOf(t)] = tbp[t]

C5_NoBlocking ==
    \A t \in Threads :
        (tpc[t] = "acquire" /\ \A u \in Threads \ {t} : InCritical(u) => KeyOf(u) # KeyOf(t))
            => ENABLED Acquire(t)

C5_OwnKeyOnly ==
    /\ \A key \in DOMAIN cache : key \in DOMAIN cache' /\ cache'[key] = cache[key]
    /\ \A key \in DOMAIN cache' \ DOMAIN cache :
           \E t \in Threads : tpc[t] = "insert" /\ KeyOf(t) = key /\ tpc'[t] = "release"

C5_AtomicPerKey == [](C5_OneSample /\ C5_NoBlocking) /\ [][C5_OwnKeyOnly]_vars

C5_Witness ==
    /\ tpc[1] = "done"
    /\ tpc[2] = "irr"
    /\ KeyOf(1) = KeyOf(2)
    /\ FieldAt(tentry[1], ModuleNameIndex) # FieldAt(tentry[2], ModuleNameIndex)
    /\ tbp[2] # mapToBloom(FieldAt(tentry[2], ModuleNameIndex), KeyOf(2)[3], config)

-----------------------------------------------------------------------------
(* test_stable_config_parser.main(): the config parser is run twice and    *)
(* the two outputs are compared.                                           *)

\* cmd = [CONFIG_PARSER_BIN, '-config_dir', CONFIG_DIR, '-out_format', 'b64']
StableCmd == <<"CONFIG_PARSER_BIN", "-config_dir", "CONFIG_DIR", "-out_format", "b64">>

\* what a run of the config parser may write to its standard output
ParserOutputs == SeqsUpTo({"A", "B"}, MaxOutLen)

\* the exit statuses subprocess.check_output raises CalledProcessError for
FailCodes == {1, 2}

\* OutputsDiffer, were only the lengths of the outputs compared
OutputsDifferInLength(a, b) == Len(a) # Len(b)

\* out1 != out2
OutputsDiffer(a, b) == a # b

InitStable ==
    /\ spc = "run1"
    /\ out1 = <<>>
    /\ out2 = <<>>
    /\ scalls = <<>>
    /\ sprinted = <<>>
    /\ sresult = "none"
    /\ PipelineIdle
    /\ ConfigIdle
    /\ RapporIdle
    /\ ThreadsIdle
    /\ ModuleIdle
    /\ DirsIdle
    /\ BuildIdle

stableFrame ==
    UNCHANGED <<pipelineVars, configVars, rapporVars, threadVars, moduleVars, dirVars, buildVars>>

\* out1 = subprocess.check_output(cmd): the parser exits with status 0
Run1Ok(output) ==
    /\ spc = "run1"
    /\ scalls' = Append(scalls, [cmd |-> StableCmd, exit |-> 0, output |-> output])
    /\ out1' = output
    /\ spc' = "run2"
    /\ UNCHANGED <<out2, sprinted, sresult>>
    /\ stableFrame

\* ... or with another status: check_output raises CalledProcessError
Run1Fails(code, output) ==
    /\ spc = "run1"
    /\ scalls' = Append(scalls, [cmd |-> StableCmd, exit |-> code, output |-> output])
    /\ spc' = "raised"
    /\ sresult' = "CalledProcessError"
    /\ UNCHANGED <<out1, out2, sprinted>>
    /\ stableFrame

\* out2 = subprocess.check_output(cmd)
Run2Ok(output) ==
    /\ spc = "run2"
    /\ scalls' = Append(scalls, [cmd |-> StableCmd, exit |-> 0, output |-> output])
    /\ out2' = output
    /\ spc' = "compare"
    /\ UNCHANGED <<out1, sprinted, sresult>>
    /\ stableFrame

Run2Fails(code, output) ==
    /\ spc = "run2"
    /\ scalls' = Append(scalls, [cmd |-> StableCmd, exit |-> code, output |-> output])
    /\ spc' = "raised"
    /\ sresult' = "CalledProcessError"
    /\ UNCHANGED <<out1, out2, sprinted>>
    /\ stableFrame

\* if out1 != out2: raise Exception(...)
CompareDiffers ==
    /\ spc = "compare"
    /\ OutputsDiffer(out1, out2)
    /\ spc' = "raised"
    /\ sresult' = "Exception"
    /\ UNCHANGED <<out1, out2, scalls, sprinted>>
    /\ stableFrame

\* print("PASS")
PrintPass ==
    /\ spc = "compare"
    /\ ~OutputsDiffer(out1, out2)
    /\ sprinted' = Append(sprinted, "PASS")
    /\ spc' = "return"
    /\ UNCHANGED <<out1, out2, scalls, sresult>>
    /\ stableFrame

\* return 0
Return0 ==
    /\ spc = "return"
    /\ spc' = "returned"
    /\ sresult' = "return 0"
    /\ UNCHANGED <<out1, out2, scalls, sprinted>>
    /\ stableFrame

NextStable ==
    \/ \E output \in ParserOutputs : Run1Ok(output)
    \/ \E code \in FailCodes, output \in ParserOutputs : Run1Fails(code, output)
    \/ \E output \in ParserOutputs : Run2Ok(output)
    \/ \E code \in FailCodes, output \in ParserOutputs : Run2Fails(code, output)
    \/ CompareDiffers
    \/ PrintPass
    \/ Return0

SpecStable == InitStable /\ [][NextStable]_vars

(* C11: the check runs the parser at most twice, each time with the same   *)
(* command line; it prints PASS, once, and returns 0 exactly when both     *)
(* runs exit with status 0 and write equal outputs; when the outputs       *)
(* differ it ends with an exception and PASS is not printed; when a run    *)
(* exits with an error it ends with CalledProcessError and PASS is not     *)
(* printed.                                                                *)
BothRunsAgree ==
    /\ Len(scalls) = 2
    /\ scalls[1].exit = 0
    /\ scalls[2].exit = 0
    /\ scalls[1].output = scalls[2].output

C11_StableCheck ==
    /\ Len(scalls) <= 2
    /\ \A n \in 1..Len(scalls) : scalls[n].cmd = StableCmd
    /\ sprinted \in {<<>>, <<"PASS">>}
    /\ sprinted = <<"PASS">> => BothRunsAgree
    /\ ~ENABLED NextStable => spc \in {"returned", "raised"}
    /\ spc = "returned" <=> sresult = "return 0"
    /\ spc = "raised" <=> sresult \in {"CalledProcessError", "Exception"}
    /\ spc \in {"returned", "raised"} => (sresult = "return 0" <=> BothRunsAgree)
    /\ sresult = "return 0" => sprinted = <<"PASS">>
    /\ sresult = "Exception" =>
          /\ Len(scalls) = 2 /\ scalls[1].exit = 0 /\ scalls[2].exit = 0
          /\ scalls[1].output # scalls[2].output
          /\ sprinted = <<>>
    /\ sresult = "CalledProcessError" =>
          /\ scalls[Len(scalls)].exit # 0
          /\ sprinted = <<>>

C11_Witness ==
    /\ sresult = "return 0"
    /\ sprinted = <<"PASS">>
    /\ Len(scalls[1].output) = 2

-----------------------------------------------------------------------------
(* ModuleNameRandomizer.randomize(entries, for_private_release)            *)

\* config_file = (file_util.RAPPOR_MODULE_NAME_PR_CONFIG if
\*     for_private_release else file_util.RAPPOR_MODULE_NAME_CONFIG)
ConfigFileFor(private) ==
    IF private THEN "RAPPOR_MODULE_NAME_PR_CONFIG" ELSE "RAPPOR_MODULE_NAME_CONFIG"

\* OutputFileFor, were the regular output file used for both releases
OutputFileForRegular(private) == "MODULE_NAME_RANDOMIZER_OUTPUT_FILE_NAME"

\* output_file = (file_util.MODULE_NAME_PR_RANDOMIZER_OUTPUT_FILE_NAME if
\*     for_private_release else file_util.MODULE_NAME_RANDOMIZER_OUTPUT_FILE_NAME)
OutputFileFor(private) ==
    IF private THEN "MODULE_NAME_PR_RANDOMIZER_OUTPUT_FILE_NAME"
    ELSE "MODULE_NAME_RANDOMIZER_OUTPUT_FILE_NAME"

\* the argument list of randomizer.randomizeUsingRappor
RapporRequest(batch, config_file, output_file) ==
    [entries |-> batch,
     params |-> << <<ModuleNameIndex, TRUE, config_file>> >>,
     output_file |-> output_file]

InitModule ==
    /\ mentries \in SeqsUpTo(ModuleEntries, MaxEntries)
    /\ forPrivateRelease \in BOOLEAN
    /\ mpc = "start"
    /\ mfiles = NoFiles
    /\ mcalls = <<>>
    /\ mwritten = {}
    /\ PipelineIdle
    /\ ConfigIdle
    /\ RapporIdle
    /\ ThreadsIdle
    /\ StableIdle
    /\ DirsIdle
    /\ BuildIdle

moduleFrame ==
    UNCHANGED <<pipelineVars, configVars, rapporVars, threadVars, stableVars, dirVars, buildVars>>

\* the two conditional expressions: config_file and output_file are chosen
ChooseFiles ==
    /\ mpc = "start"
    /\ mfiles' = [config_file |-> ConfigFileFor(forPrivateRelease),
                  output_file |-> OutputFileFor(forPrivateRelease)]
    /\ mpc' = "call"
    /\ UNCHANGED <<mentries, forPrivateRelease, mcalls, mwritten>>
    /\ moduleFrame

\* randomizer.randomizeUsingRappor(entries, [(1, True, config_file)], output_file)
CallRappor ==
    /\ mpc = "call"
    /\ mcalls' = Append(mcalls, RapporRequest(mentries, mfiles.config_file, mfiles.output_file))
    /\ mpc' = "incall"
    /\ UNCHANGED <<mentries, forPrivateRelease, mfiles, mwritten>>
    /\ moduleFrame

\* the request returns, having written its output file
RapporReturns ==
    /\ mpc = "incall"
    /\ mwritten' = mwritten \cup { mcalls[Len(mcalls)].output_file }
    /\ mpc' = "returned"
    /\ UNCHANGED <<mentries, forPrivateRelease, mfiles, mcalls>>
    /\ moduleFrame

\* ... or raises, and the exception leaves randomize()
RapporRaises ==
    /\ mpc = "incall"
    /\ mpc' = "raised"
    /\ UNCHANGED <<mentries, forPrivateRelease, mfiles, mcalls, mwritten>>
    /\ moduleFrame

NextModule ==
    \/ ChooseFiles
    \/ CallRappor
    \/ RapporReturns
    \/ RapporRaises

SpecModule == InitModule /\ [][NextModule]_vars

(* C12: randomize issues one RAPPOR request, none before the files are     *)
(* chosen and exactly one from the call on; the request carries the batch, *)
(* a single parameter triple with field index 1 and Bloom filters on, and  *)
(* the config file and output file of the same release: the private-       *)
(* release pair when for_private_release holds, else the regular pair; the *)
(* only output file ever written is the one of that release.               *)
MatchedPair(private, config_file, output_file) ==
    \/ /\ private
       /\ config_file = "RAPPOR_MODULE_NAME_PR_CONFIG"
       /\ output_file = "MODULE_NAME_PR_RANDOMIZER_OUTPUT_FILE_NAME"
    \/ /\ ~private
       /\ config_file = "RAPPOR_MODULE_NAME_CONFIG"
       /\ output_file = "MODULE_NAME_RANDOMIZER_OUTPUT_FILE_NAME"

C12_MatchedPair ==
    /\ Len(mcalls) = (IF mpc \in {"incall", "returned", "raised"} THEN 1 ELSE 0)
    /\ \A n \in 1..Len(mcalls) :
           /\ mcalls[n].entries = mentries
           /\ Len(mcalls[n].params) = 1
           /\ mcalls[n].params[1][1] = 1
           /\ mcalls[n].params[1][2] = TRUE
           /\ MatchedPair(forPrivateRelease, mcalls[n].params[1][3], mcalls[n].output_file)
    /\ \A file \in mwritten :
           file = (IF forPrivateRelease THEN "MODULE_NAME_PR_RANDOMIZER_OUTPUT_FILE_NAME"
                   ELSE "MODULE_NAME_RANDOMIZER_OUTPUT_FILE_NAME")

C12_Witness ==
    /\ mpc = "returned"
    /\ forPrivateRelease
    /\ Len(mentries) = 3
    /\ mwritten # {}

-----------------------------------------------------------------------------
(* container_util: the files of the deploy directories.                    *)

Basename(path) == path[Len(path)]

COBALT_COMMON_DOCKER_FILE == <<"kubernetes", "cobalt_common", "Dockerfile">>
ANALYZER_SERVICE_DOCKER_FILE == <<"kubernetes", "analyzer_service", "Dockerfile">>
REPORT_MASTER_DOCKER_FILE == <<"kubernetes", "report_master", "Dockerfile">>
SHUFFLER_DOCKER_FILE == <<"kubernetes", "shuffler", "Dockerfile">>
ROOTS_PEM == <<"sysroot", "share", "grpc", "roots.pem">>
COBALT_COMMON_SO_FILES ==
    << <<"sysroot", "lib", "libgoogleapis.so">>,
       <<"sysroot", "lib", "libgrpc.so.1">>,
       <<"sysroot", "lib", "libgrpc++.so.1">>,
       <<"sysroot", "lib", "libprotobuf.so.10">>,
       <<"sysroot", "lib", "libunwind.so.1">> >>
ANALYZER_CONFIG_FILES ==
    << <<"REGISTERED_CONFIG_DIR", "registered_encodings.txt">>,
       <<"REGISTERED_CONFIG_DIR", "registered_metrics.txt">>,
       <<"REGISTERED_CONFIG_DIR", "registered_reports.txt">> >>
\* paths imported from process_starter, whose values are not part of this
\* module's sources: each stands for a path, and only its base name matters
ANALYZER_SERVICE_PATH == <<"out", "analyzer", "analyzer_service">>
REPORT_MASTER_PATH == <<"out", "analyzer", "report_master", "analyzer_report_master">>
SHUFFLER_PATH == <<"out", "shuffler", "shuffler">>
SHUFFLER_CONFIG_FILE == <<"shuffler", "src", "config", "config_v0.txt">>

COBALT_COMMON_IMAGE_NAME == "cobalt-common"
ANALYZER_SERVICE_IMAGE_NAME == "analyzer-service"
REPORT_MASTER_IMAGE_NAME == "report-master"
SHUFFLER_IMAGE_NAME == "shuffler"

\* the values of shuffler_config_file: the default, another file of the
\* same directory, and a file of the default's name in another directory
ShufflerConfigFiles ==
    { SHUFFLER_CONFIG_FILE,
      <<"shuffler", "src", "config", "config_demo.txt">>,
      <<"demo", "config_v0.txt">> }

\* files_to_copy of the four _build_*_deploy_dir functions
CommonFiles == <<COBALT_COMMON_DOCKER_FILE, ROOTS_PEM>> \o COBALT_COMMON_SO_FILES
AnalyzerFiles == <<ANALYZER_SERVICE_DOCKER_FILE, ANALYZER_SERVICE_PATH>>
ReportMasterFiles == <<REPORT_MASTER_DOCKER_FILE, REPORT_MASTER_PATH>> \o ANALYZER_CONFIG_FILES
ShufflerFiles(config_file) == <<SHUFFLER_DOCKER_FILE, SHUFFLER_PATH, config_file>>

-----------------------------------------------------------------------------
(* _set_contents_of_dir(dir_name, files_to_copy)                           *)

DirNames(content) == DOMAIN content.files

ListNames(files) == { Basename(files[n]) : n \in 1..Len(files) }

\* what shutil.rmtree(dir_name, ignore_errors=True) may leave behind:
\* nothing, or, its errors being ignored, the directory with any part of
\* its files
RmtreeOutcomes(content) ==
    IF ~content.exists THEN {content}
    ELSE {Absent} \cup
         { [exists |-> TRUE, files |-> [name \in kept |-> content.files[name]]] :
               kept \in SUBSET DirNames(content) }

\* MakedirsAllowed, were the directory only ensured to exist
MakedirsAllowedIfExists(content) == TRUE

\* os.makedirs(dir_name) raises when the directory exists
MakedirsAllowed(content) == ~content.exists

\* shutil.copy(f, dir_name): the file lands under its base name
CopyInto(content, f) ==
    [content EXCEPT !.files = (Basename(f) :> f) @@ content.files]

\* the call starts
StartCall(dir, files) ==
    [pc |-> "rmtree", dir |-> dir, files |-> files, idx |-> 1,
     hadOther |-> \E name \in DirNames(fs[dir]) : name \notin ListNames(files)]

\* an exception inside the call leaves build_all_docker_images too
Raise ==
    /\ call' = [call EXCEPT !.pc = "raised"]
    /\ bpc' = IF bpc = "running" THEN "raised" ELSE bpc
    /\ UNCHANGED <<fs, bstep, shufflerConfig, dockerLog>>

dirFrame ==
    UNCHANGED <<pipelineVars, configVars, rapporVars, threadVars, stableVars, moduleVars>>

\* shutil.rmtree(dir_name, ignore_errors=True)
Rmtree ==
    /\ call.pc = "rmtree"
    /\ \E left \in RmtreeOutcomes(fs[call.dir]) :
           fs' = [fs EXCEPT ![call.dir] = left]
    /\ call' = [call EXCEPT !.pc = "makedirs"]
    /\ UNCHANGED buildVars
    /\ dirFrame

\* os.makedirs(dir_name)
MakedirsOk ==
    /\ call.pc = "makedirs"
    /\ MakedirsAllowed(fs[call.dir])
    /\ fs' = [fs EXCEPT ![call.dir].exists = TRUE]
    /\ call' = [call EXCEPT !.pc = "copy"]
    /\ UNCHANGED buildVars
    /\ dirFrame

\* ... raises: the directory is still there, or cannot be created
MakedirsFails ==
    /\ call.pc = "makedirs"
    /\ Raise
    /\ dirFrame

\* one turn of the loop: shutil.copy(f, dir_name)
CopyOk ==
    /\ call.pc = "copy"
    /\ call.idx <= Len(call.files)
    /\ fs' = [fs EXCEPT ![call.dir] = CopyInto(fs[call.dir], call.files[call.idx])]
    /\ call' = [call EXCEPT !.idx = call.idx + 1]
    /\ UNCHANGED buildVars
    /\ dirFrame

CopyFails ==
    /\ call.pc = "copy"
    /\ call.idx <= Len(call.files)
    /\ Raise
    /\ dirFrame

\* the loop is exhausted: the call returns
ReturnCall ==
    /\ call.pc = "copy"
    /\ call.idx > Len(call.files)
    /\ call' = [call EXCEPT !.pc = "returned"]
    /\ UNCHANGED <<fs, buildVars>>
    /\ dirFrame

(* Free-standing calls on the shuffler deploy directory, one after the     *)
(* other, whatever the outcome of the earlier ones.                        *)

\* the lists a call is given: those of _build_shuffler_deploy_dir, and any
\* short list of config files (two of which share a base name)
FileLists ==
    {ShufflerFiles(config_file) : config_file \in ShufflerConfigFiles}
        \cup SeqsUpTo(ShufflerConfigFiles, MaxFiles)

StaleDir == [exists |-> TRUE, files |-> ("old.txt" :> <<"old", "old.txt">>)]

InitDirs ==
    /\ fs \in { [d \in DeployDirs |-> IF d = SHUFFLER_DOCKER_BUILD_DIR THEN c ELSE Absent] :
                   c \in {Absent, StaleDir} }
    /\ call = NoCall
    /\ BuildIdle
    /\ PipelineIdle
    /\ ConfigIdle
    /\ RapporIdle
    /\ ThreadsIdle
    /\ StableIdle
    /\ ModuleIdle

BeginCall(files) ==
    /\ bpc = "idle"
    /\ call.pc \in {"idle", "returned", "raised"}
    /\ call' = StartCall(SHUFFLER_DOCKER_BUILD_DIR, files)
    /\ UNCHANGED <<fs, buildVars>>
    /\ dirFrame

NextDirs ==
    \/ \E files \in FileLists : BeginCall(files)
    \/ Rmtree
    \/ MakedirsOk
    \/ MakedirsFails
    \/ CopyOk
    \/ CopyFails
    \/ ReturnCall

SpecDirs == InitDirs /\ [][NextDirs]_vars

(* C14: when a _set_contents_of_dir call has returned, the directory       *)
(* exists and holds, by base name, exactly the files of that call, each    *)
(* the copy of the last file of the list with that base name; nothing an   *)
(* earlier call or an earlier state of the directory put there is left.    *)
LastWithName(files, name) ==
    files[CHOOSE n \in 1..Len(files) :
              /\ Basename(files[n]) = name
              /\ \A later \in (n + 1)..Len(files) : Basename(files[later]) # name]

C14_ExactContents ==
    call.pc = "returned" =>
        /\ fs[call.dir].exists
        /\ \A name \in DirNames(fs[call.dir]) :
               \E n \in 1..Len(call.files) : Basename(call.files[n]) = name
        /\ \A n \in 1..Len(call.files) :
               /\ Basename(call.files[n]) \in DirNames(fs[call.dir])
               /\ fs[call.dir].files[Basename(call.files[n])]
                      = LastWithName(call.files, Basename(call.files[n]))

C14_Witness ==
    /\ call.pc = "returned"
    /\ call.hadOther
    /\ call.files = ShufflerFiles(<<"shuffler", "src", "config", "config_demo.txt">>)
    /\ "config_v0.txt" \notin DirNames(fs[SHUFFLER_DOCKER_BUILD_DIR])

-----------------------------------------------------------------------------
(* build_all_docker_images(shuffler_config_file)                           *)

ImageDir(image) ==
    CASE image = COBALT_COMMON_IMAGE_NAME -> COBALT_COMMON_DOCKER_BUILD_DIR
      [] image = ANALYZER_SERVICE_IMAGE_NAME -> ANALYZER_SERVICE_DOCKER_BUILD_DIR
      [] image = REPORT_MASTER_IMAGE_NAME -> REPORT_MASTER_DOCKER_BUILD_DIR
      [] image = SHUFFLER_IMAGE_NAME -> SHUFFLER_DOCKER_BUILD_DIR

\* files_to_copy of the _build_*_deploy_dir function of the image
ImageFiles(image, config_file) ==
    CASE image = COBALT_COMMON_IMAGE_NAME -> CommonFiles
      [] image = ANALYZER_SERVICE_IMAGE_NAME -> AnalyzerFiles
      [] image = REPORT_MASTER_IMAGE_NAME -> ReportMasterFiles
      [] image = SHUFFLER_IMAGE_NAME -> ShufflerFiles(config_file)

\* extra_args: only the shuffler image gets the base name of its config
ExtraArgs(image, config_file) ==
    IF image = SHUFFLER_IMAGE_NAME
    THEN <<"--build-arg", <<"config_file=", Basename(config_file)>> >>
    ELSE <<>>

\* _build_docker_image: cmd
DockerCmd(image, deploy_dir, extra_args) ==
    <<"docker", "build">> \o extra_args \o <<"-t", image, deploy_dir>>

\* BuildSteps, were the analyzer-service image built before its directory
BuildStepsDockerFirst ==
    << [kind |-> "dir", image |-> COBALT_COMMON_IMAGE_NAME],
       [kind |-> "docker", image |-> COBALT_COMMON_IMAGE_NAME],
       [kind |-> "docker", image |-> ANALYZER_SERVICE_IMAGE_NAME],
       [kind |-> "dir", image |-> ANALYZER_SERVICE_IMAGE_NAME],
       [kind |-> "dir", image |-> REPORT_MASTER_IMAGE_NAME],
       [kind |-> "docker", image |-> REPORT_MASTER_IMAGE_NAME],
       [kind |-> "dir", image |-> SHUFFLER_IMAGE_NAME],
       [kind |-> "docker", image |-> SHUFFLER_IMAGE_NAME] >>

\* the statements of build_all_docker_images, in order
BuildSteps ==
    << [kind |-> "dir", image |-> COBALT_COMMON_IMAGE_NAME],
       [kind |-> "docker", image |-> COBALT_COMMON_IMAGE_NAME],
       [kind |-> "dir", image |-> ANALYZER_SERVICE_IMAGE_NAME],
       [kind |-> "docker", image |-> ANALYZER_SERVICE_IMAGE_NAME],
       [kind |-> "dir", image |-> REPORT_MASTER_IMAGE_NAME],
       [kind |-> "docker", image |-> REPORT_MASTER_IMAGE_NAME],
       [kind |-> "dir", image |-> SHUFFLER_IMAGE_NAME],
       [kind |-> "docker", image |-> SHUFFLER_IMAGE_NAME] >>

AtStep(kind) ==
    /\ bpc = "running"
    /\ bstep <= Len(BuildSteps)
    /\ BuildSteps[bstep].kind = kind

InitBuild ==
    /\ fs \in [DeployDirs -> {Absent, StaleDir}]
    /\ call = NoCall
    /\ bpc = "running"
    /\ bstep = 1
    /\ shufflerConfig \in ShufflerConfigFiles
    /\ dockerLog = <<>>
    /\ PipelineIdle
    /\ ConfigIdle
    /\ RapporIdle
    /\ ThreadsIdle
    /\ StableIdle
    /\ ModuleIdle

\* _build_*_deploy_dir(): _set_contents_of_dir is called
BeginDir ==
    /\ AtStep("dir")
    /\ call.pc = "idle"
    /\ call' = StartCall(ImageDir(BuildSteps[bstep].image),
                         ImageFiles(BuildSteps[bstep].image, shufflerConfig))
    /\ UNCHANGED <<fs, buildVars>>
    /\ dirFrame

\* ... and has returned: on to the next statement
FinishDir ==
    /\ AtStep("dir")
    /\ call.pc = "returned"
    /\ call' = NoCall
    /\ bstep' = bstep + 1
    /\ UNCHANGED <<fs, bpc, shufflerConfig, dockerLog>>
    /\ dirFrame

DockerInvocation(image, ok) ==
    [image |-> image,
     cmd |-> DockerCmd(image, ImageDir(image), ExtraArgs(image, shufflerConfig)),
     context |-> fs[ImageDir(image)],
     ok |-> ok]

\* _build_docker_image: subprocess.check_call(cmd) returns
DockerBuildOk ==
    /\ AtStep("docker")
    /\ dockerLog' = Append(dockerLog, DockerInvocation(BuildSteps[bstep].image, TRUE))
    /\ bstep' = bstep + 1
    /\ bpc' = IF bstep = Len(BuildSteps) THEN "done" ELSE bpc
    /\ UNCHANGED <<fs, call, shufflerConfig>>
    /\ dirFrame

\* ... or raises CalledProcessError, which leaves build_all_docker_images
DockerBuildFails ==
    /\ AtStep("docker")
    /\ dockerLog' = Append(dockerLog, DockerInvocation(BuildSteps[bstep].image, FALSE))
    /\ bpc' = "raised"
    /\ UNCHANGED <<fs, call, bstep, shufflerConfig>>
    /\ dirFrame

NextBuild ==
    \/ BeginDir
    \/ Rmtree
    \/ MakedirsOk
    \/ MakedirsFails
    \/ CopyOk
    \/ CopyFails
    \/ ReturnCall
    \/ FinishDir
    \/ DockerBuildOk
    \/ DockerBuildFails

SpecBuild == InitBuild /\ [][NextBuild]_vars

(* C13: every docker build is invoked on a deploy directory that exists    *)
(* and holds exactly the files of its image; the images are built in the   *)
(* order cobalt-common, analyzer-service, report-master, shuffler, each    *)
(* only after every earlier build has succeeded; and once a directory      *)
(* step or a docker build has failed, nothing more is built or copied.     *)
RequiredNames(image) ==
    CASE image = "cobalt-common" ->
             {"Dockerfile", "roots.pem", "libgoogleapis.so", "libgrpc.so.1",
              "libgrpc++.so.1", "libprotobuf.so.10", "libunwind.so.1"}
      [] image = "analyzer-service" -> {"Dockerfile", Basename(ANALYZER_SERVICE_PATH)}
      [] image = "report-master" ->
             {"Dockerfile", Basename(REPORT_MASTER_PATH), "registered_encodings.txt",
              "registered_metrics.txt", "registered_reports.txt"}
      [] image = "shuffler" ->
             {"Dockerfile", Basename(SHUFFLER_PATH), Basename(shufflerConfig)}

ImageOrder == <<"cobalt-common", "analyzer-service", "report-master", "shuffler">>

C13_Populated ==
    /\ Len(dockerLog) <= Len(ImageOrder)
    /\ \A n \in 1..Len(dockerLog) :
           /\ dockerLog[n].image = ImageOrder[n]
           /\ dockerLog[n].context.exists
           /\ DirNames(dockerLog[n].context) = RequiredNames(dockerLog[n].image)
           /\ dockerLog[n].cmd[Len(dockerLog[n].cmd)] = ImageDir(dockerLog[n].image)
           /\ n < Len(dockerLog) => dockerLog[n].ok
    /\ bpc = "done" => Len(dockerLog) = 4 /\ dockerLog[4].ok
    /\ bpc = "raised" => call.pc = "raised" \/ ~dockerLog[Len(dockerLog)].ok

C13_FailStop ==
    bpc = "raised" => UNCHANGED <<fs, call, bpc, bstep, dockerLog>>

C13_BuildOrder == []C13_Populated /\ [][C13_FailStop]_vars

C13_Witness ==
    /\ bpc = "done"
    /\ shufflerConfig = <<"demo", "config_v0.txt">>
    /\ dockerLog[4].context.files["config_v0.txt"] = <<"demo", "config_v0.txt">>

====
